---------------------------- MODULE Spec2Model ----------------------------
(***************************************************************************)
(* A model of matrix-bot-ical: the upcoming-events query of ical.rs, the   *)
(* sender filter of config.rs, and the handlers, join task, start-up and   *)
(* reminder scheduler of main.rs.                                          *)
(*                                                                         *)
(* Text is modelled as a sequence: a timestamp is a sequence of byte       *)
(* values, compared as Rust compares str (lexicographically, a proper      *)
(* prefix first).  Option<T> is a sequence of length 0 (None) or 1 (Some). *)
(***************************************************************************)
EXTENDS Integers, Sequences, FiniteSets, TLC

VARIABLES
    \* ---- ical.rs: one IcalCalendar and the last query made on it
    calendar,       \* IcalCalendar.events: Vec<CalendarEvent>
    query,          \* the last call: [fn, current_time, max_date, limit], or NoCall
    upcoming,       \* what that call returned: indices into calendar, in order
    \* ---- config.rs: one call of should_ignore_user
    filter,         \* its arguments: [user_id, bot_user_id, config]
    ignored,        \* Option<bool>: what the call returned, None before it
    \* ---- main.rs: the process
    mainpc,         \* where main is: "main", "validated", "ready", "serving", "exited"
    config,         \* the Config main loaded
    client,         \* whether run_bot has built the Client
    handlers,       \* the event handlers added to the client
    jobs,           \* the jobs added to the JobScheduler, in order
    started,        \* whether scheduler.start() was called
    run,            \* the handler or reminder firing under way, or IdleRun
    sent_any,       \* whether room.send was ever called
    \* ---- main.rs: the join tasks on_stripped_state_member has spawned
    tasks,          \* one record per tokio::spawn, in the order spawned
    \* ---- main.rs: one call of a request function
    request,        \* its arguments: [cfg, feed, now], feed being what from_url gives
    reply,          \* None before the call, then Some([fn, did])
    \* ---- config.rs: one call of Config::from_toml
    toml,           \* Option: the parsed document, None outside a call
    loaded          \* None before the call, then Some(the Result it returned)

queryVars == <<calendar, query, upcoming>>

filterVars == <<filter, ignored>>

botVars == <<mainpc, config, client, handlers, jobs, started, run, sent_any>>

joinVars == <<tasks>>

formatVars == <<request, reply>>

loadVars == <<toml, loaded>>

vars == <<calendar, query, upcoming, filter, ignored,
          mainpc, config, client, handlers, jobs, started, run, sent_any, tasks,
          request, reply, toml, loaded>>

-----------------------------------------------------------------------------
(* Option<T> *)

None == <<>>

Some(x) == <<x>>

IsSome(o) == Len(o) = 1

Unwrap(o) == o[1]

Option(S) == {None} \cup {Some(x) : x \in S}

Min(a, b) == IF a <= b THEN a ELSE b

-----------------------------------------------------------------------------
(* Bounds *)

\* the longest calendar the query is checked on
MaxEvents == 3

\* the longest user id should_ignore_user is checked on
MaxIdLen == 3

\* the longest ignored_users list should_ignore_user is checked on
MaxIgnored == 1

\* the most reminders a configuration holds
MaxReminders == 2

\* the most invitations the bot receives
MaxInvites == 2

-----------------------------------------------------------------------------
(* Text comparison: Rust's Ord for str, byte-wise lexicographic *)

\* a < b
StrLt(a, b) ==
    \E i \in 1..(Len(a) + 1) :
        /\ i <= Len(b)
        /\ \A j \in 1..(i - 1) : a[j] = b[j]
        /\ \/ i = Len(a) + 1
           \/ a[i] < b[i]

\* a <= b
StrLe(a, b) == a = b \/ StrLt(a, b)

\* a > b
StrGt(a, b) == StrLt(b, a)

\* Timestamps the feed may carry.  The code compares them as text whatever
\* their form, so fixed-width and shorter stamps are both drawn.
TimeStamps == { <<1>>, <<1, 1>>, <<2>>, <<2, 1>> }

-----------------------------------------------------------------------------
(* ical.rs: CalendarEvent and IcalCalendar *)

CalendarEvent(summary, start_time, end_time, location, url) ==
    [ summary    |-> summary,
      start_time |-> start_time,
      end_time   |-> end_time,
      location   |-> location,
      url        |-> url ]

\* fn cmp of the sort_by closure: TRUE when event a must not come after b
\* (Ordering::Less or Ordering::Equal)
SortLe(a, b) ==
    CASE IsSome(a.start_time) /\ IsSome(b.start_time) ->
             StrLe(Unwrap(a.start_time), Unwrap(b.start_time))
      [] IsSome(a.start_time) /\ ~IsSome(b.start_time) -> TRUE
      [] ~IsSome(a.start_time) /\ IsSome(b.start_time) -> FALSE
      [] OTHER -> TRUE

\* the filter closure of get_upcoming_events_filtered
IsUpcomingStartBug(event, current_time, max_date) ==
    IF IsSome(event.start_time)
    THEN LET start_time_str == Unwrap(event.start_time)
             is_future      == ~StrLt(start_time_str, current_time)
             is_before_max  == IF IsSome(max_date)
                               THEN StrLt(start_time_str, Unwrap(max_date))
                               ELSE TRUE
         IN  is_future /\ is_before_max
    ELSE FALSE

IsUpcoming(event, current_time, max_date) ==
    IF IsSome(event.start_time)
    THEN LET start_time_str == Unwrap(event.start_time)
             is_future      == StrGt(start_time_str, current_time)
             is_before_max  == IF IsSome(max_date)
                               THEN StrLe(start_time_str, Unwrap(max_date))
                               ELSE TRUE
         IN  is_future /\ is_before_max
    ELSE FALSE

\* .iter().filter(..).collect(): the indices of the kept events, in stored order
RECURSIVE FilterFrom(_, _, _, _)
FilterFrom(events, i, current_time, max_date) ==
    IF i > Len(events) THEN <<>>
    ELSE (IF IsUpcoming(events[i], current_time, max_date) THEN <<i>> ELSE <<>>)
         \o FilterFrom(events, i + 1, current_time, max_date)

\* one insertion of a stable sort: x goes after every element it is not less than
RECURSIVE InsertSorted(_, _, _)
InsertSorted(events, sorted, x) ==
    IF sorted = <<>> THEN <<x>>
    ELSE IF SortLe(events[Head(sorted)], events[x])
         THEN <<Head(sorted)>> \o InsertSorted(events, Tail(sorted), x)
         ELSE <<x>> \o sorted

RECURSIVE StableSort(_, _)
StableSort(events, refs) ==
    IF refs = <<>> THEN <<>>
    ELSE InsertSorted(events,
                      StableSort(events, SubSeq(refs, 1, Len(refs) - 1)),
                      refs[Len(refs)])

\* a sort that leaves the references in stored order
SortByStartBug(events, refs) == refs

\* upcoming_events.sort_by(..): Vec::sort_by is a stable sort
SortByStart(events, refs) == StableSort(events, refs)

\* a truncate that cuts one entry too late
TruncateBug(refs, limit) ==
    IF IsSome(limit) THEN SubSeq(refs, 1, Min(Unwrap(limit) + 1, Len(refs))) ELSE refs

\* if let Some(limit) = limit { upcoming_events.truncate(limit) }
Truncate(refs, limit) ==
    IF IsSome(limit) THEN SubSeq(refs, 1, Min(Unwrap(limit), Len(refs))) ELSE refs

get_upcoming_events_filtered(events, current_time, max_date, limit) ==
    Truncate(SortByStart(events, FilterFrom(events, 1, current_time, max_date)), limit)

get_upcoming_events_limited(events, current_time, limit) ==
    get_upcoming_events_filtered(events, current_time, None, limit)

get_upcoming_events(events, current_time) ==
    get_upcoming_events_limited(events, current_time, None)

-----------------------------------------------------------------------------
(* config.rs: BotFilteringConfig and should_ignore_user *)

BotFilteringConfig(ignore_self, ignore_bots, ignored_users) ==
    [ ignore_self   |-> ignore_self,
      ignore_bots   |-> ignore_bots,
      ignored_users |-> ignored_users ]

\* impl Default for BotFilteringConfig
DefaultBotFiltering == BotFilteringConfig(TRUE, FALSE, <<>>)

UpperCase == << "A", "B", "C", "D", "E", "F", "G", "H", "I", "J", "K", "L", "M",
                "N", "O", "P", "Q", "R", "S", "T", "U", "V", "W", "X", "Y", "Z" >>

LowerCase == << "a", "b", "c", "d", "e", "f", "g", "h", "i", "j", "k", "l", "m",
                "n", "o", "p", "q", "r", "s", "t", "u", "v", "w", "x", "y", "z" >>

\* char lowercasing, on the ASCII letters
LowerChar(c) ==
    IF \E i \in 1..Len(UpperCase) : UpperCase[i] = c
    THEN LowerCase[CHOOSE i \in 1..Len(UpperCase) : UpperCase[i] = c]
    ELSE c

\* a to_lowercase that leaves the text as it is
ToLowercaseBug(s) == s

\* str::to_lowercase
ToLowercase(s) == [i \in 1..Len(s) |-> LowerChar(s[i])]

\* whether pat occurs in s at position i
MatchesAt(s, pat, i) ==
    /\ i + Len(pat) - 1 <= Len(s)
    /\ \A j \in 1..Len(pat) : s[i + j - 1] = pat[j]

\* str::contains(pat): scan the positions left to right
RECURSIVE ContainsFrom(_, _, _)
ContainsFrom(s, pat, i) ==
    IF i + Len(pat) - 1 > Len(s) THEN FALSE
    ELSE IF MatchesAt(s, pat, i) THEN TRUE
    ELSE ContainsFrom(s, pat, i + 1)

StrContains(s, pat) == ContainsFrom(s, pat, 1)

\* Vec<String>::contains
VecContains(v, x) == \E i \in 1..Len(v) : v[i] = x

\* the text "bot"
BotPattern == << "b", "o", "t" >>

should_ignore_user(user_id, bot_user_id, filtering) ==
    IF filtering.ignore_self /\ user_id = bot_user_id THEN TRUE
    ELSE IF VecContains(filtering.ignored_users, user_id) THEN TRUE
    ELSE IF filtering.ignore_bots /\ StrContains(ToLowercase(user_id), BotPattern) THEN TRUE
    ELSE FALSE

\* the ids the bot may have, which are also the senders of the messages received
BotUserIds == { << "x" >>, << "b", "O", "t" >>, << "t", "x" >> }

-----------------------------------------------------------------------------
(* config.rs: Config and ReminderConfig.  homeserver, access_token, log_file *)
(* and working_dir are read by no handler and are left out.                 *)

ReminderConfig(cron, reminder_type, matrix_room) ==
    [ cron          |-> cron,
      reminder_type |-> reminder_type,
      matrix_room   |-> matrix_room ]

Config(username, webcal, info_url, reminders, bot_filtering) ==
    [ username      |-> username,
      webcal        |-> webcal,
      info_url      |-> info_url,
      reminders     |-> reminders,
      bot_filtering |-> bot_filtering ]

\* the cron expressions Job::new_async accepts, among those configured
ValidCrons == { "0 0 9 * * Mon" }

\* tokio_cron_scheduler's Job::new_async(cron, ..).is_ok()
CronParses(cron) == cron \in ValidCrons

\* the room ids RoomId::parse accepts, among those configured
ValidRoomIds == { "!a:x", "!b:x" }

\* ruma's RoomId::parse(id).is_ok()
RoomIdParses(id) == id \in ValidRoomIds

\* Result<T>: Ok(value) or Err(anyhow!(error))
Ok(value) == [ok |-> TRUE, error |-> "", value |-> << value >>]

Err(error) == [ok |-> FALSE, error |-> error, value |-> <<>>]

\* toml::Value: a value is [type, val]; a table is a record of Option<Value>,
\* one field per key the document may hold
TomlString(s) == [type |-> "string", val |-> s]

\* a value of another type than the one asked for; blank is the empty payload
TomlInteger(blank) == [type |-> "integer", val |-> blank]

\* .and_then(|v| v.as_str()) on what Value::get returned
as_str(got) ==
    IF got = None THEN None
    ELSE IF Unwrap(got).type = "string" THEN Some(Unwrap(got).val) ELSE None

\* .and_then(|v| v.as_bool())
as_bool(got) ==
    IF got = None THEN None
    ELSE IF Unwrap(got).type = "boolean" THEN Some(Unwrap(got).val) ELSE None

\* the loop of parse_reminders_config, from entry i on: the reminders pushed,
\* or the first error
RECURSIVE ParseRemindersFrom(_, _)
ParseRemindersFrom(reminders_array, i) ==
    IF i > Len(reminders_array) THEN Ok(<<>>)
    ELSE IF reminders_array[i].type # "table"
    THEN ParseRemindersFrom(reminders_array, i + 1)
    ELSE LET reminder_table == reminders_array[i].val
             cron           == as_str(reminder_table.cron)
             reminder_type  == as_str(reminder_table.reminder_type)
             matrix_room    == as_str(reminder_table.matrix_room)
         IN  IF cron = None
             THEN Err("Missing 'cron' in reminder configuration")
             ELSE IF reminder_type = None
             THEN Err("Missing 'reminder_type' in reminder configuration")
             ELSE IF Unwrap(reminder_type) \notin { "NextMeeting", "AllUpcomingMeetings" }
             THEN Err("Invalid reminder_type")
             ELSE IF matrix_room = None
             THEN Err("Missing 'matrix_room' in reminder configuration")
             ELSE LET rest == ParseRemindersFrom(reminders_array, i + 1)
                  IN  IF ~rest.ok THEN rest
                      ELSE Ok(<< ReminderConfig(Unwrap(cron), Unwrap(reminder_type),
                                                Unwrap(matrix_room)) >>
                              \o Unwrap(rest.value))

parse_reminders_config(table) ==
    IF table.reminders # None /\ Unwrap(table.reminders).type = "array"
    THEN ParseRemindersFrom(Unwrap(table.reminders).val, 1)
    ELSE Ok(<<>>)

\* arr.iter().filter_map(|v| v.as_str()).collect()
RECURSIVE FilterMapStr(_, _)
FilterMapStr(arr, i) ==
    IF i > Len(arr) THEN <<>>
    ELSE (IF arr[i].type = "string" THEN << arr[i].val >> ELSE <<>>)
         \o FilterMapStr(arr, i + 1)

\* Value::get on a value that is no table gives None for every key
parse_bot_filtering_config(table) ==
    IF table.bot_filtering = None THEN Ok(DefaultBotFiltering)
    ELSE LET bot_config == Unwrap(table.bot_filtering)
             is_table   == bot_config.type = "table"
             ignore_self == IF is_table THEN as_bool(bot_config.val.ignore_self) ELSE None
             ignore_bots == IF is_table THEN as_bool(bot_config.val.ignore_bots) ELSE None
             ignored_users == IF is_table THEN bot_config.val.ignored_users ELSE None
         IN  Ok(BotFilteringConfig(
                    IF ignore_self = None THEN TRUE ELSE Unwrap(ignore_self),
                    IF ignore_bots = None THEN FALSE ELSE Unwrap(ignore_bots),
                    IF ignored_users # None /\ Unwrap(ignored_users).type = "array"
                    THEN FilterMapStr(Unwrap(ignored_users).val, 1)
                    ELSE <<>>))

\* the Config of a table whose three required strings are there
ConfigOf(table) ==
    LET webcal        == as_str(table.webcal)
        reminders     == parse_reminders_config(table)
        bot_filtering == parse_bot_filtering_config(table)
    IN  IF ~reminders.ok THEN reminders
        ELSE IF ~bot_filtering.ok THEN bot_filtering
        ELSE Ok(Config(Unwrap(as_str(table.username)),
                       IF webcal = None THEN <<>> ELSE Unwrap(webcal),
                       as_str(table.info_url),
                       Unwrap(reminders.value),
                       Unwrap(bot_filtering.value)))

\* a loader that looks for the username before the homeserver
from_toml_username_first(doc) ==
    IF ~doc.parsed THEN Err("Failed to parse TOML")
    ELSE IF as_str(doc.table.username) = None
    THEN Err("Missing 'username' in config file")
    ELSE IF as_str(doc.table.homeserver) = None
    THEN Err("Missing 'homeserver' in config file")
    ELSE IF as_str(doc.table.access_token) = None
    THEN Err("Missing 'access_token' in config file")
    ELSE ConfigOf(doc.table)

\* Config::from_toml: doc is what toml::from_str gave, a table or an error.
\* The fields of the struct literal are evaluated in the order written, and
\* each `?` returns the first error.
from_toml(doc) ==
    IF ~doc.parsed THEN Err("Failed to parse TOML")
    ELSE IF as_str(doc.table.homeserver) = None
    THEN Err("Missing 'homeserver' in config file")
    ELSE IF as_str(doc.table.username) = None
    THEN Err("Missing 'username' in config file")
    ELSE IF as_str(doc.table.access_token) = None
    THEN Err("Missing 'access_token' in config file")
    ELSE ConfigOf(doc.table)

-----------------------------------------------------------------------------
(* main.rs: the response text.  A text is a sequence of pieces, one per     *)
(* push_str or returned literal; a piece is <<what, value, value>>.         *)

Piece(what, a, b) == <<what, a, b>>

Literal(what) == Piece(what, <<>>, <<>>)

\* NaiveDateTime::parse_from_str(.., "%Y%m%dT%H%M%S").is_ok(): the stamp is a
\* full-width local time.  DateTime::parse_from_str(.., "%Y%m%dT%H%M%SZ")
\* carries no offset field and fails on every input.  Among TimeStamps the
\* two-byte stamps stand for the full-width ones.
ParsesAsNaive(ical_date) == Len(ical_date) = 2

\* the text dt.format("%a, %b %d, %Y at %I:%M %p") gives: marked by a leading 0
\* byte, which no stamp carries
format_ical_date(ical_date) ==
    IF ParsesAsNaive(ical_date) THEN <<0>> \o ical_date ELSE ical_date

\* event pieces with a Location line pushed whether or not a location is set
EventPiecesAlwaysLocation(event) ==
    IF IsSome(event.summary)
    THEN (IF IsSome(event.url)
          THEN << Piece("link", Unwrap(event.summary), Unwrap(event.url)) >>
          ELSE << Piece("bold", Unwrap(event.summary), <<>>) >>)
         \o (IF IsSome(event.start_time)
             THEN << Piece("Starts", format_ical_date(Unwrap(event.start_time)), <<>>) >>
             ELSE <<>>)
         \o (IF IsSome(event.end_time)
             THEN << Piece("Ends", format_ical_date(Unwrap(event.end_time)), <<>>) >>
             ELSE <<>>)
         \o << Piece("Location",
                     IF IsSome(event.location) THEN Unwrap(event.location) ELSE <<>>,
                     <<>>) >>
         \o << Literal("blank") >>
    ELSE <<>>

\* the pieces pushed for one event by either request handler
EventPieces(event) ==
    IF IsSome(event.summary)
    THEN (IF IsSome(event.url)
          THEN << Piece("link", Unwrap(event.summary), Unwrap(event.url)) >>
          ELSE << Piece("bold", Unwrap(event.summary), <<>>) >>)
         \o (IF IsSome(event.start_time)
             THEN << Piece("Starts", format_ical_date(Unwrap(event.start_time)), <<>>) >>
             ELSE <<>>)
         \o (IF IsSome(event.end_time)
             THEN << Piece("Ends", format_ical_date(Unwrap(event.end_time)), <<>>) >>
             ELSE <<>>)
         \o (IF IsSome(event.location)
             THEN << Piece("Location", Unwrap(event.location), <<>>) >>
             ELSE <<>>)
         \o << Literal("blank") >>
    ELSE <<>>

\* an info line pushed whether or not an info URL is configured
InfoPiecesAlways(cfg) ==
    << Piece("For more information",
             IF IsSome(cfg.info_url) THEN Unwrap(cfg.info_url) ELSE <<>>, <<>>) >>

\* "Add info URL if configured"
InfoPieces(cfg) ==
    IF IsSome(cfg.info_url)
    THEN << Piece("For more information", Unwrap(cfg.info_url), <<>>) >>
    ELSE <<>>

RECURSIVE AllEventPieces(_, _, _)
AllEventPieces(events, refs, i) ==
    IF i > Len(refs) THEN <<>>
    ELSE EventPieces(events[refs[i]]) \o AllEventPieces(events, refs, i + 1)

\* what a request handler did: the text it returned, how often it fetched the
\* feed, and the query it made (limit and result), if any
Handled(text, fetches, queried, limit, found) ==
    [ text |-> text, fetches |-> fetches, queried |-> queried,
      limit |-> limit, found |-> found ]

\* a handler that takes a failed fetch for a calendar without events
handle_meeting_event_request_err_as_empty(cfg, feed, now) ==
    IF cfg.webcal = <<>>
    THEN Handled(<< Literal("No webcal URL configured") >>, 0, FALSE, None, <<>>)
    ELSE LET events          == IF IsSome(feed) THEN Unwrap(feed) ELSE <<>>
             upcoming_events == get_upcoming_events_limited(events, now, Some(1))
         IN  IF upcoming_events = <<>>
             THEN Handled(<< Literal("No upcoming events found.") >>,
                          1, TRUE, Some(1), upcoming_events)
             ELSE Handled(<< Literal("# Next Meeting/Event") >>
                              \o EventPieces(events[upcoming_events[1]])
                              \o InfoPieces(cfg),
                          1, TRUE, Some(1), upcoming_events)

\* feed is what IcalCalendar::from_url gives if called: None for Err, Some(events)
handle_meeting_event_request(cfg, feed, now) ==
    IF cfg.webcal = <<>>
    THEN Handled(<< Literal("No webcal URL configured") >>, 0, FALSE, None, <<>>)
    ELSE IF ~IsSome(feed)
    THEN Handled(<< Literal("There was a problem fetching the calendar") >>,
                 1, FALSE, None, <<>>)
    ELSE LET events          == Unwrap(feed)
             upcoming_events == get_upcoming_events_limited(events, now, Some(1))
         IN  IF upcoming_events = <<>>
             THEN Handled(<< Literal("No upcoming events found.") >>,
                          1, TRUE, Some(1), upcoming_events)
             ELSE Handled(<< Literal("# Next Meeting/Event") >>
                              \o EventPieces(events[upcoming_events[1]])
                              \o InfoPieces(cfg),
                          1, TRUE, Some(1), upcoming_events)

\* a plural handler that lists the events without looking whether there are any
handle_meetings_events_request_unchecked(cfg, feed, now) ==
    IF cfg.webcal = <<>>
    THEN Handled(<< Literal("No webcal URL configured") >>, 0, FALSE, None, <<>>)
    ELSE IF ~IsSome(feed)
    THEN Handled(<< Literal("There was a problem fetching the calendar") >>,
                 1, FALSE, None, <<>>)
    ELSE LET events          == Unwrap(feed)
             upcoming_events == get_upcoming_events(events, now)
         IN  Handled(<< Literal("# Upcoming Meetings/Events") >>
                         \o AllEventPieces(events, upcoming_events, 1)
                         \o InfoPieces(cfg),
                     1, TRUE, None, upcoming_events)

handle_meetings_events_request(cfg, feed, now) ==
    IF cfg.webcal = <<>>
    THEN Handled(<< Literal("No webcal URL configured") >>, 0, FALSE, None, <<>>)
    ELSE IF ~IsSome(feed)
    THEN Handled(<< Literal("There was a problem fetching the calendar") >>,
                 1, FALSE, None, <<>>)
    ELSE LET events          == Unwrap(feed)
             upcoming_events == get_upcoming_events(events, now)
         IN  IF upcoming_events = <<>>
             THEN Handled(<< Literal("No upcoming events found.") >>,
                          1, TRUE, None, upcoming_events)
             ELSE Handled(<< Literal("# Upcoming Meetings/Events") >>
                              \o AllEventPieces(events, upcoming_events, 1)
                              \o InfoPieces(cfg),
                          1, TRUE, None, upcoming_events)

-----------------------------------------------------------------------------
(* main.rs: the process.  A handler run or a reminder firing is followed    *)
(* through its suspension points (the feed fetch, the send) in `run`; runs  *)
(* share no state, so one run at a time is followed.                        *)

\* str::starts_with
StartsWith(s, prefix) ==
    /\ Len(prefix) <= Len(s)
    /\ \A i \in 1..Len(prefix) : s[i] = prefix[i]

MeetingPrefix == << "!", "m", "e", "e", "t", "i", "n", "g" >>

EventPrefix == << "!", "e", "v", "e", "n", "t" >>

MeetingsPrefix == MeetingPrefix \o << "s" >>

EventsPrefix == EventPrefix \o << "s" >>

IdleRun ==
    [ kind    |-> "idle",     \* "message" or "reminder" while one is under way
      pc      |-> "idle",     \* "request", "send", "returned"
      room    |-> "",         \* the room the run answers to
      job     |-> 0,          \* the index of the firing job
      state   |-> "",         \* room.state() of the message's room
      msgtype |-> "",         \* event.content.msgtype
      sender  |-> <<>>,
      body    |-> <<>>,
      handler |-> "none",     \* the request function the run calls
      feed    |-> None,       \* what from_url gave the run
      now     |-> <<>>,       \* the run's chrono::Utc::now()
      handled |-> None,       \* Some(what the request function did)
      sends   |-> <<>>,       \* the room.send calls of the run: [room, text, ok]
      logs    |-> <<>> ]      \* what the run printed

BotIdle ==
    /\ mainpc = "main"
    /\ config = Config(<<>>, <<>>, None, <<>>, DefaultBotFiltering)
    /\ client = FALSE
    /\ handlers = {}
    /\ jobs = <<>>
    /\ started = FALSE
    /\ run = IdleRun
    /\ sent_any = FALSE
    /\ tasks = <<>>

\* a validation that checks the cron expressions and not the room ids
validate_reminders_cron_only(cfg) ==
    \A i \in 1..Len(cfg.reminders) : CronParses(cfg.reminders[i].cron)

\* validate_reminders(config).is_ok(): every reminder's cron and room id parse
validate_reminders(cfg) ==
    \A i \in 1..Len(cfg.reminders) :
        /\ CronParses(cfg.reminders[i].cron)
        /\ RoomIdParses(cfg.reminders[i].matrix_room)

\* main, lines 47-48: validate_reminders(&config)?
ValidateReminders ==
    /\ mainpc = "main"
    /\ mainpc' = IF validate_reminders(config) THEN "validated" ELSE "exited"
    /\ UNCHANGED <<config, client, handlers, jobs, started, run, sent_any>>
    /\ UNCHANGED <<queryVars, filterVars, joinVars, formatVars, loadVars>>

\* main, lines 50-76: the probe fetch, whose outcome changes nothing, and the
\* optional daemonizing
Daemonize ==
    /\ mainpc = "validated"
    /\ \E outcome \in { "ok", "failed" } :
          mainpc' = IF outcome = "ok" THEN "ready" ELSE "exited"
    /\ UNCHANGED <<config, client, handlers, jobs, started, run, sent_any>>
    /\ UNCHANGED <<queryVars, filterVars, joinVars, formatVars, loadVars>>

\* the job setup_reminder_scheduler builds for a reminder
JobOf(reminder) ==
    [ cron          |-> reminder.cron,
      reminder_type |-> reminder.reminder_type,
      room_id       |-> reminder.matrix_room ]

\* run_bot, lines 84-117 failing: building the client, restoring the session
\* or the first sync returns an error
RunBotLoginFails ==
    /\ mainpc = "ready"
    /\ mainpc' = "exited"
    /\ client' \in BOOLEAN
    /\ UNCHANGED <<config, handlers, jobs, started, run, sent_any>>
    /\ UNCHANGED <<queryVars, filterVars, joinVars, formatVars, loadVars>>

\* run_bot, lines 84-139 with setup_reminder_scheduler failing at
\* JobScheduler::new
RunBotSchedulerFails ==
    /\ mainpc = "ready"
    /\ mainpc' = "exited"
    /\ client' = TRUE
    /\ handlers' = { "on_room_message", "on_stripped_state_member" }
    /\ UNCHANGED <<config, jobs, started, run, sent_any>>
    /\ UNCHANGED <<queryVars, filterVars, joinVars, formatVars, loadVars>>

\* run_bot, lines 84-144, reaching client.sync
RunBot ==
    /\ mainpc = "ready"
    /\ mainpc' = "serving"
    /\ client' = TRUE
    /\ handlers' = { "on_room_message", "on_stripped_state_member" }
    /\ jobs' = [i \in 1..Len(config.reminders) |-> JobOf(config.reminders[i])]
    /\ started' = (config.reminders # <<>>)
    /\ UNCHANGED <<config, run, sent_any>>
    /\ UNCHANGED <<queryVars, filterVars, joinVars, formatVars, loadVars>>

\* run_bot, line 144: client.sync returns an error and the process ends,
\* dropping the runtime and the run under way
SyncFails ==
    /\ mainpc = "serving"
    /\ mainpc' = "exited"
    /\ run' = IdleRun
    /\ UNCHANGED <<config, client, handlers, jobs, started, sent_any>>
    /\ UNCHANGED <<queryVars, filterVars, joinVars, formatVars, loadVars>>

\* the branch on_room_message takes on a text body (lines 171-196)
CommandOfPluralLast(body) ==
    IF StartsWith(body, MeetingPrefix) \/ StartsWith(body, EventPrefix)
    THEN "meeting"
    ELSE IF StartsWith(body, MeetingsPrefix) \/ StartsWith(body, EventsPrefix)
    THEN "meetings"
    ELSE "none"

CommandOf(body) ==
    IF StartsWith(body, MeetingsPrefix) \/ StartsWith(body, EventsPrefix)
    THEN "meetings"
    ELSE IF StartsWith(body, MeetingPrefix) \/ StartsWith(body, EventPrefix)
    THEN "meeting"
    ELSE "none"

\* the message bodies received
Bodies ==
    { MeetingsPrefix, EventsPrefix, MeetingPrefix, EventPrefix,
      MeetingsPrefix \o << " ", "x" >>, EventPrefix \o << "x" >>,
      << "!", "m", "e", "e", "t" >>, << "!", "E", "v", "e", "n", "t" >>,
      << " " >> \o EventPrefix, << "h", "i" >>, <<>> }

RoomStates == { "Joined", "Invited", "Left" }

MsgTypes == { "Text", "Image" }

\* a message handler that answers in rooms the bot has not joined as well
OnRoomMessageAnyRoomState ==
    /\ mainpc = "serving"
    /\ "on_room_message" \in handlers
    /\ run = IdleRun
    /\ \E room \in ValidRoomIds, state \in RoomStates, msgtype \in MsgTypes,
          sender \in BotUserIds, body \in Bodies :
          LET bot_user_id == config.username
              received == [IdleRun EXCEPT !.kind = "message", !.room = room,
                                          !.state = state, !.msgtype = msgtype,
                                          !.sender = sender, !.body = body]
          IN  run' =
                IF msgtype # "Text" THEN [received EXCEPT !.pc = "returned"]
                ELSE IF should_ignore_user(sender, bot_user_id, config.bot_filtering)
                THEN [received EXCEPT !.pc = "returned",
                                      !.logs = << "Ignoring message from filtered user" >>]
                ELSE IF CommandOf(body) = "meetings"
                THEN [received EXCEPT !.pc = "request", !.handler = "meetings",
                                      !.logs = << "Received meetings/events request" >>]
                ELSE IF CommandOf(body) = "meeting"
                THEN [received EXCEPT !.pc = "request", !.handler = "meeting",
                                      !.logs = << "Received meeting/event request" >>]
                ELSE [received EXCEPT !.pc = "returned"]
    /\ UNCHANGED <<mainpc, config, client, handlers, jobs, started, sent_any>>
    /\ UNCHANGED <<queryVars, filterVars, joinVars, formatVars, loadVars>>

\* on_room_message, lines 149-177 and 186-188: up to the call of the request
\* function
OnRoomMessage ==
    /\ mainpc = "serving"
    /\ "on_room_message" \in handlers
    /\ run = IdleRun
    /\ \E room \in ValidRoomIds, state \in RoomStates, msgtype \in MsgTypes,
          sender \in BotUserIds, body \in Bodies :
          LET bot_user_id == config.username
              received == [IdleRun EXCEPT !.kind = "message", !.room = room,
                                          !.state = state, !.msgtype = msgtype,
                                          !.sender = sender, !.body = body]
          IN  run' =
                IF state # "Joined" THEN [received EXCEPT !.pc = "returned"]
                ELSE IF msgtype # "Text" THEN [received EXCEPT !.pc = "returned"]
                ELSE IF should_ignore_user(sender, bot_user_id, config.bot_filtering)
                THEN [received EXCEPT !.pc = "returned",
                                      !.logs = << "Ignoring message from filtered user" >>]
                ELSE IF CommandOf(body) = "meetings"
                THEN [received EXCEPT !.pc = "request", !.handler = "meetings",
                                      !.logs = << "Received meetings/events request" >>]
                ELSE IF CommandOf(body) = "meeting"
                THEN [received EXCEPT !.pc = "request", !.handler = "meeting",
                                      !.logs = << "Received meeting/event request" >>]
                ELSE [received EXCEPT !.pc = "returned"]
    /\ UNCHANGED <<mainpc, config, client, handlers, jobs, started, sent_any>>
    /\ UNCHANGED <<queryVars, filterVars, joinVars, formatVars, loadVars>>

\* whether client.get_room finds the room: the client's store is the SDK's
RoomKnown == BOOLEAN

\* the request function a firing calls (lines 446-449)
HandlerOfSwapped(reminder_type) ==
    IF reminder_type = "NextMeeting" THEN "meetings" ELSE "meeting"

HandlerOf(reminder_type) ==
    IF reminder_type = "NextMeeting" THEN "meeting" ELSE "meetings"

\* the closure of setup_reminder_scheduler (lines 391-401) firing, and
\* send_scheduled_reminder, lines 424-449, up to the call of the request
\* function
FireReminder ==
    /\ mainpc = "serving"
    /\ started
    /\ run = IdleRun
    /\ \E j \in 1..Len(jobs), known \in RoomKnown :
          LET fired == [IdleRun EXCEPT !.kind = "reminder", !.job = j,
                                       !.room = jobs[j].room_id]
          IN  run' =
                IF ~RoomIdParses(jobs[j].room_id)
                THEN [fired EXCEPT !.pc = "returned", !.logs = << "Invalid room ID" >>]
                ELSE IF ~known
                THEN [fired EXCEPT !.pc = "returned", !.logs = << "Bot is not in room" >>]
                ELSE [fired EXCEPT !.pc = "request",
                                   !.handler = HandlerOf(jobs[j].reminder_type)]
    /\ UNCHANGED <<mainpc, config, client, handlers, jobs, started, sent_any>>
    /\ UNCHANGED <<queryVars, filterVars, joinVars, formatVars, loadVars>>

\* the calendars the feed may hold; only their events' presence of fields
\* and start times matter to a response
FeedCalendars ==
    { <<>>,
      << CalendarEvent(Some(<<5>>), Some(<<2>>), Some(<<2, 1>>), Some(<<6>>), Some(<<7>>)) >>,
      << CalendarEvent(Some(<<5>>), Some(<<2, 1>>), None, None, None),
         CalendarEvent(None, Some(<<1, 1>>), Some(<<2>>), None, Some(<<7>>)),
         CalendarEvent(Some(<<4>>), None, None, Some(<<6>>), None) >> }

\* what IcalCalendar::from_url returns: Err (a failed fetch or parse) or a calendar
Feeds == Option(FeedCalendars)

\* chrono::Utc::now(), as a stamp
Nows == { <<1>>, <<2>> }

\* handle_meeting_event_request (lines 247-296), called by either kind of run
HandleMeetingEventRequest ==
    /\ mainpc = "serving"
    /\ run.pc = "request"
    /\ run.handler = "meeting"
    /\ \E feed \in Feeds, now \in Nows :
          LET did == handle_meeting_event_request(config, feed, now)
          IN  run' = [run EXCEPT !.pc = "send",
                                 !.feed = IF did.fetches = 0 THEN None ELSE feed,
                                 !.now = IF did.queried THEN now ELSE <<>>,
                                 !.handled = Some(did)]
    /\ UNCHANGED <<mainpc, config, client, handlers, jobs, started, sent_any>>
    /\ UNCHANGED <<queryVars, filterVars, joinVars, formatVars, loadVars>>

\* handle_meetings_events_request (lines 298-348), called by either kind of run
HandleMeetingsEventsRequest ==
    /\ mainpc = "serving"
    /\ run.pc = "request"
    /\ run.handler = "meetings"
    /\ \E feed \in Feeds, now \in Nows :
          LET did == handle_meetings_events_request(config, feed, now)
          IN  run' = [run EXCEPT !.pc = "send",
                                 !.feed = IF did.fetches = 0 THEN None ELSE feed,
                                 !.now = IF did.queried THEN now ELSE <<>>,
                                 !.handled = Some(did)]
    /\ UNCHANGED <<mainpc, config, client, handlers, jobs, started, sent_any>>
    /\ UNCHANGED <<queryVars, filterVars, joinVars, formatVars, loadVars>>

\* a send that is tried again when it fails
SendCallsRetrying(room, text, ok) ==
    IF ok THEN << [room |-> room, text |-> text, ok |-> TRUE] >>
    ELSE << [room |-> room, text |-> text, ok |-> FALSE],
            [room |-> room, text |-> text, ok |-> FALSE] >>

\* the room.send calls of `if let Err(e) = room.send(response).await`
SendCalls(room, text, ok) == << [room |-> room, text |-> text, ok |-> ok] >>

\* the room a firing sends to: the room_id its closure captured
TargetOf(j) == jobs[j].room_id

\* on_room_message, lines 178-184 and 189-195: the send and its error branch
SendResponse ==
    /\ mainpc = "serving"
    /\ run.kind = "message"
    /\ run.pc = "send"
    /\ \E ok \in BOOLEAN :
          run' = [run EXCEPT
                    !.pc = "returned",
                    !.sends = @ \o SendCalls(run.room, Unwrap(run.handled).text, ok),
                    !.logs = @ \o (IF ok THEN <<>>
                                   ELSE IF run.handler = "meetings"
                                   THEN << "Failed to send meetings/events message" >>
                                   ELSE << "Failed to send meeting/event message" >>)]
    /\ sent_any' = TRUE
    /\ UNCHANGED <<mainpc, config, client, handlers, jobs, started>>
    /\ UNCHANGED <<queryVars, filterVars, joinVars, formatVars, loadVars>>

\* send_scheduled_reminder, lines 451-460
SendScheduledReminder ==
    /\ mainpc = "serving"
    /\ run.kind = "reminder"
    /\ run.pc = "send"
    /\ \E ok \in BOOLEAN :
          run' = [run EXCEPT
                    !.pc = "returned",
                    !.sends = @ \o SendCalls(TargetOf(run.job), Unwrap(run.handled).text, ok),
                    !.logs = @ \o (IF ok THEN << "Sent scheduled reminder" >>
                                   ELSE << "Failed to send scheduled reminder" >>)]
    /\ sent_any' = TRUE
    /\ UNCHANGED <<mainpc, config, client, handlers, jobs, started>>
    /\ UNCHANGED <<queryVars, filterVars, joinVars, formatVars, loadVars>>

\* a return that keeps the fetched calendar for the next request
ReturnKeepingFeed ==
    /\ mainpc = "serving"
    /\ run.pc = "returned"
    /\ run' = [IdleRun EXCEPT !.feed = run.feed, !.now = run.now]
    /\ UNCHANGED <<mainpc, config, client, handlers, jobs, started, sent_any>>
    /\ UNCHANGED <<queryVars, filterVars, joinVars, formatVars, loadVars>>

\* a return that takes a job off the scheduler when its firing sent nothing
\* or its send failed
ReturnDroppingFailedJob ==
    /\ mainpc = "serving"
    /\ run.pc = "returned"
    /\ run' = IdleRun
    /\ jobs' = IF /\ run.kind = "reminder"
                  /\ \A k \in 1..Len(run.sends) : ~run.sends[k].ok
               THEN [i \in 1..(Len(jobs) - 1) |->
                        IF i < run.job THEN jobs[i] ELSE jobs[i + 1]]
               ELSE jobs
    /\ UNCHANGED <<mainpc, config, client, handlers, started, sent_any>>
    /\ UNCHANGED <<queryVars, filterVars, joinVars, formatVars, loadVars>>

\* the run's future completes and is dropped
Return ==
    /\ mainpc = "serving"
    /\ run.pc = "returned"
    /\ run' = IdleRun
    /\ UNCHANGED <<mainpc, config, client, handlers, jobs, started, sent_any>>
    /\ UNCHANGED <<queryVars, filterVars, joinVars, formatVars, loadVars>>

-----------------------------------------------------------------------------
(* main.rs: on_stripped_state_member and the join task it spawns.  A task   *)
(* is followed through its suspension points: each room.join() and the      *)
(* sleep between two of them.                                               *)

\* let mut delay = 2
InitialDelay == 2

\* the cap of `if delay > 3600`
MaxDelay == 3600

\* a doubling that tests the cap before the delay is doubled
GivesUpEarly(delay) == delay * 2 > MaxDelay

\* a cap test that lets the delay pass the cap once before giving up
GivesUpLate(delay) == delay > 2 * MaxDelay

\* if delay > 3600 { .. break; }
GivesUp(delay) == delay > MaxDelay

\* the task at tokio::spawn
NewTask(room, event) ==
    [ room    |-> room,
      event   |-> event,          \* the member event the task was spawned for
      pc      |-> "join",         \* "join", "sleep", "final", "done"
      delay   |-> InitialDelay,
      joins   |-> 0,              \* the room.join() calls made
      oks     |-> 0,              \* those that returned Ok
      waits   |-> <<>>,           \* the delays slept, in order
      gave_up |-> FALSE,          \* "Can't join room .. after multiple retries" printed
      joined  |-> FALSE ]         \* "Successfully joined room" printed

MembershipStates == { "Invite", "Join", "Leave" }

\* a handler that joins on every invitation it sees, whoever is invited
OnStrippedStateMemberAnyUser ==
    /\ mainpc = "serving"
    /\ "on_stripped_state_member" \in handlers
    /\ Len(tasks) < MaxInvites
    /\ \E state_key \in BotUserIds, membership \in MembershipStates,
          room \in ValidRoomIds :
          tasks' = IF membership = "Invite"
                   THEN Append(tasks, NewTask(room, <<state_key, membership>>))
                   ELSE tasks
    /\ UNCHANGED <<queryVars, filterVars, botVars, formatVars, loadVars>>

\* on_stripped_state_member, lines 198-231: the handler returns once the task
\* is spawned
OnStrippedStateMember ==
    /\ mainpc = "serving"
    /\ "on_stripped_state_member" \in handlers
    /\ Len(tasks) < MaxInvites
    /\ \E state_key \in BotUserIds, membership \in MembershipStates,
          room \in ValidRoomIds :
          tasks' = IF state_key # config.username THEN tasks
                   ELSE IF membership = "Invite"
                   THEN Append(tasks, NewTask(room, <<state_key, membership>>))
                   ELSE tasks
    /\ UNCHANGED <<queryVars, filterVars, botVars, formatVars, loadVars>>

\* the loop condition, line 213: room.join().await, and the eprintln of a failure
JoinAttempt(t) ==
    /\ tasks[t].pc = "join"
    /\ \E ok \in BOOLEAN :
          tasks' = [tasks EXCEPT ![t].joins = @ + 1,
                                 ![t].oks = IF ok THEN @ + 1 ELSE @,
                                 ![t].pc = IF ok THEN "final" ELSE "sleep"]
    /\ UNCHANGED <<queryVars, filterVars, botVars, formatVars, loadVars>>

\* a sleep that doubles one delay shared by all the join tasks
SleepSharedDelay(t) ==
    /\ tasks[t].pc = "sleep"
    /\ LET delay == tasks[t].delay * 2
       IN  tasks' = [k \in 1..Len(tasks) |->
                       IF k = t
                       THEN [tasks[k] EXCEPT !.waits = Append(@, tasks[t].delay),
                                             !.delay = delay,
                                             !.gave_up = GivesUp(delay),
                                             !.pc = IF GivesUp(delay) THEN "final"
                                                    ELSE "join"]
                       ELSE [tasks[k] EXCEPT !.delay = delay]]
    /\ UNCHANGED <<queryVars, filterVars, botVars, formatVars, loadVars>>

\* lines 218-224: the sleep, the doubling and the test against the cap
Sleep(t) ==
    /\ tasks[t].pc = "sleep"
    /\ LET delay == tasks[t].delay * 2
       IN  tasks' = [tasks EXCEPT ![t].waits = Append(@, tasks[t].delay),
                                  ![t].delay = delay,
                                  ![t].gave_up = GivesUp(delay),
                                  ![t].pc = IF GivesUp(delay) THEN "final" ELSE "join"]
    /\ UNCHANGED <<queryVars, filterVars, botVars, formatVars, loadVars>>

\* a last join that is tried a second time when it fails
FinalJoinRetryOnce(t) ==
    /\ tasks[t].pc = "final"
    /\ \E ok \in BOOLEAN :
          tasks' = [tasks EXCEPT ![t].joins = IF ok THEN @ + 1 ELSE @ + 2,
                                 ![t].oks = IF ok THEN @ + 1 ELSE @,
                                 ![t].joined = ok,
                                 ![t].pc = "done"]
    /\ UNCHANGED <<queryVars, filterVars, botVars, formatVars, loadVars>>

\* lines 227-229: room.join() is called once more, after the loop
FinalJoin(t) ==
    /\ tasks[t].pc = "final"
    /\ \E ok \in BOOLEAN :
          tasks' = [tasks EXCEPT ![t].joins = @ + 1,
                                 ![t].oks = IF ok THEN @ + 1 ELSE @,
                                 ![t].joined = ok,
                                 ![t].pc = "done"]
    /\ UNCHANGED <<queryVars, filterVars, botVars, formatVars, loadVars>>

-----------------------------------------------------------------------------
(* The query specification: a calendar, and one call of one of its three   *)
(* methods.  The methods take &self and change nothing, so a second call   *)
(* on the same calendar starts from the same state as the first.           *)

NoCall == [fn |-> "none"]

\* events as the query sees them: only start_time is read
QueryEvents == { CalendarEvent(None, s, None, None, None) : s \in Option(TimeStamps) }

QueryCalendars == UNION { [1..n -> QueryEvents] : n \in 0..MaxEvents }

Limits == Option(0..(MaxEvents + 1))

\* no calendar is held
QueryIdle ==
    /\ calendar = <<>>
    /\ query = NoCall
    /\ upcoming = <<>>

\* no call of a request function is under way
FormatIdle ==
    /\ request = [cfg  |-> Config(<<>>, <<>>, None, <<>>, DefaultBotFiltering),
                  feed |-> None, now |-> <<>>]
    /\ reply = None

\* no call of Config::from_toml is under way
LoadIdle ==
    /\ toml = None
    /\ loaded = None

\* no call of should_ignore_user is under way
FilterIdle ==
    /\ filter = [user_id |-> <<>>, bot_user_id |-> <<>>, config |-> DefaultBotFiltering]
    /\ ignored = None

QueryInit ==
    /\ calendar \in QueryCalendars
    /\ query = NoCall
    /\ upcoming = <<>>
    /\ FilterIdle
    /\ BotIdle
    /\ FormatIdle
    /\ LoadIdle

CallUpcoming ==
    /\ query = NoCall
    /\ \E current_time \in TimeStamps :
        /\ query' = [fn |-> "get_upcoming_events", current_time |-> current_time,
                     max_date |-> None, limit |-> None]
        /\ upcoming' = get_upcoming_events(calendar, current_time)
        /\ UNCHANGED <<calendar, filterVars, botVars, joinVars, formatVars, loadVars>>

CallLimited ==
    /\ query = NoCall
    /\ \E current_time \in TimeStamps, limit \in Limits :
        /\ query' = [fn |-> "get_upcoming_events_limited", current_time |-> current_time,
                     max_date |-> None, limit |-> limit]
        /\ upcoming' = get_upcoming_events_limited(calendar, current_time, limit)
        /\ UNCHANGED <<calendar, filterVars, botVars, joinVars, formatVars, loadVars>>

CallFiltered ==
    /\ query = NoCall
    /\ \E current_time \in TimeStamps, max_date \in Option(TimeStamps), limit \in Limits :
        /\ query' = [fn |-> "get_upcoming_events_filtered", current_time |-> current_time,
                     max_date |-> max_date, limit |-> limit]
        /\ upcoming' = get_upcoming_events_filtered(calendar, current_time, max_date, limit)
        /\ UNCHANGED <<calendar, filterVars, botVars, joinVars, formatVars, loadVars>>

QueryNext == CallUpcoming \/ CallLimited \/ CallFiltered

SpecQuery == QueryInit /\ [][QueryNext]_vars

-----------------------------------------------------------------------------
(* Claims about the query *)

Called == query.fn # "none"

\* the set of elements of a sequence
Range(s) == { s[i] : i \in 1..Len(s) }

NoDuplicates(s) == \A i, j \in 1..Len(s) : s[i] = s[j] => i = j

\* the events the inclusion rule names, for the arguments of the last call
Included ==
    { i \in 1..Len(calendar) :
        /\ calendar[i].start_time # None
        /\ StrLt(query.current_time, calendar[i].start_time[1])
        /\ query.max_date # None =>
               ~StrLt(query.max_date[1], calendar[i].start_time[1]) }

\* C1: with no limit, get_upcoming_events_filtered returns exactly the events
\* that have a start, whose start is strictly after the reference time and,
\* when a maxTime is given, not after maxTime; each of them once.
C1_InclusionRule ==
    (Called /\ query.limit = None) =>
        /\ Range(upcoming) = Included
        /\ NoDuplicates(upcoming)

\* C1 witness: a filtered call with a maxTime on a calendar holding an event
\* at the reference time (left out), one at maxTime (returned) and one
\* without a start (left out).
C1_Witness ==
    /\ query.fn = "get_upcoming_events_filtered"
    /\ query.limit = None
    /\ query.max_date # None
    /\ \E i, j, k \in 1..Len(calendar) :
          /\ calendar[i].start_time = Some(query.current_time)
          /\ i \notin Range(upcoming)
          /\ calendar[j].start_time = query.max_date
          /\ j \in Range(upcoming)
          /\ calendar[k].start_time = None
          /\ k \notin Range(upcoming)

\* C2: the returned sequence is non-decreasing by start: no returned event
\* starts after the event that follows it.
C2_NonDecreasing ==
    Called =>
        \A i \in 1..(Len(upcoming) - 1) :
            /\ calendar[upcoming[i]].start_time # None
            /\ calendar[upcoming[i + 1]].start_time # None
            /\ ~StrLt(calendar[upcoming[i + 1]].start_time[1],
                      calendar[upcoming[i]].start_time[1])

\* C2 witness: a calendar stored latest-first whose events are all returned,
\* so the result reverses the stored order.
C2_Witness ==
    /\ Called
    /\ Len(calendar) = 3
    /\ Len(upcoming) = 3
    /\ upcoming = <<3, 2, 1>>
    /\ calendar[1].start_time # calendar[3].start_time

\* C3: get_upcoming_events_limited with Some(k) returns min(k, n) events, the
\* first min(k, n) of the unlimited result for the same inputs (n its size);
\* with no limit it returns all n.
C3_LimitIsPrefix ==
    query.fn = "get_upcoming_events_limited" =>
        LET all == get_upcoming_events(calendar, query.current_time)
            n   == Cardinality(Included)
        IN  /\ Len(all) = n
            /\ query.limit = None => upcoming = all
            /\ query.limit # None =>
                  /\ Len(upcoming) = Min(query.limit[1], n)
                  /\ \A i \in 1..Len(upcoming) : upcoming[i] = all[i]

\* C3 witness: a limit below the size of the unlimited result cuts it short.
C3_Witness ==
    /\ query.fn = "get_upcoming_events_limited"
    /\ query.limit = Some(2)
    /\ Len(upcoming) = 2
    /\ Cardinality(Included) = 3

-----------------------------------------------------------------------------
(* The filter specification: arguments, and one call of should_ignore_user *)

IdChars == { "b", "O", "t", "x" }

\* the sender ids the filter is called with
UserIds == UNION { [1..n -> IdChars] : n \in 0..MaxIdLen }

\* the ids a configuration may list
ListedIds == { << "x" >>, << "t", "x" >> }

IgnoredLists == UNION { [1..n -> ListedIds] : n \in 0..MaxIgnored }

FilterInit ==
    /\ filter \in [ user_id     : UserIds,
                    bot_user_id : BotUserIds,
                    config      : { BotFilteringConfig(s, b, l) :
                                      s \in BOOLEAN, b \in BOOLEAN, l \in IgnoredLists } ]
    /\ ignored = None
    /\ QueryIdle
    /\ BotIdle
    /\ FormatIdle
    /\ LoadIdle

CallShouldIgnore ==
    /\ ignored = None
    /\ ignored' = Some(should_ignore_user(filter.user_id, filter.bot_user_id, filter.config))
    /\ UNCHANGED <<filter, queryVars, botVars, joinVars, formatVars, loadVars>>

FilterNext == CallShouldIgnore

SpecFilter == FilterInit /\ [][FilterNext]_vars

-----------------------------------------------------------------------------
(* Claims about the filter *)

\* condition (1): ignore_self is set and the sender is the bot
IsSelf == filter.config.ignore_self /\ filter.user_id = filter.bot_user_id

\* condition (2): the sender is listed, exactly
IsListed == filter.user_id \in Range(filter.config.ignored_users)

\* the sender's id holds "bot" in any mix of upper and lower case
HoldsBot(id) ==
    \E i \in 1..(Len(id) - 2) :
        /\ id[i] \in { "b", "B" }
        /\ id[i + 1] \in { "o", "O" }
        /\ id[i + 2] \in { "t", "T" }

\* condition (3): ignore_bots is set and the lowercased sender contains "bot"
IsBotLike == filter.config.ignore_bots /\ HoldsBot(filter.user_id)

\* C4: should_ignore_user returns true iff ignore_self and sender = bot id, or
\* the sender is listed in ignored_users, or ignore_bots and the lowercased
\* sender contains "bot"; so the bot's own id is ignored under ignore_bots
\* when it contains "bot" though ignore_self is off.
C4_IgnoreIsOr ==
    ignored # None =>
        /\ ignored[1] = (IsSelf \/ IsListed \/ IsBotLike)
        /\ (/\ filter.user_id = filter.bot_user_id
            /\ ~filter.config.ignore_self
            /\ filter.config.ignore_bots
            /\ HoldsBot(filter.bot_user_id)) => ignored[1] = TRUE

\* C4 witness: the bot's own mixed-case id, ignored by the "bot" rule alone.
C4_Witness ==
    /\ ignored = Some(TRUE)
    /\ filter.user_id = filter.bot_user_id
    /\ ~filter.config.ignore_self
    /\ filter.config.ignore_bots
    /\ ~IsListed
    /\ filter.user_id = << "b", "O", "t" >>

-----------------------------------------------------------------------------
(* The bot specification: main from the loaded configuration on, then the  *)
(* message handler and the reminder firings while the client syncs.        *)

\* the reminders a configuration file may list
ReminderChoices ==
    { ReminderConfig("0 0 9 * * Mon", "NextMeeting", "!a:x"),
      ReminderConfig("0 0 9 * * Mon", "AllUpcomingMeetings", "!b:x"),
      ReminderConfig("every monday", "NextMeeting", "!a:x"),
      ReminderConfig("0 0 9 * * Mon", "AllUpcomingMeetings", "b:x") }

ReminderLists == UNION { [1..n -> ReminderChoices] : n \in 0..MaxReminders }

FilterChoices ==
    { DefaultBotFiltering,
      BotFilteringConfig(FALSE, TRUE, << << "t", "x" >> >>) }

Configs ==
    { Config(<< "b", "O", "t" >>, webcal, info_url, reminders, bot_filtering) :
        webcal \in { <<>>, <<9>> }, info_url \in Option({ <<8>> }),
        reminders \in ReminderLists, bot_filtering \in FilterChoices }

BotInit ==
    /\ mainpc = "main"
    /\ config \in Configs
    /\ client = FALSE
    /\ handlers = {}
    /\ jobs = <<>>
    /\ started = FALSE
    /\ run = IdleRun
    /\ sent_any = FALSE
    /\ tasks = <<>>
    /\ QueryIdle
    /\ FilterIdle
    /\ FormatIdle
    /\ LoadIdle

BotNext ==
    \/ ValidateReminders
    \/ Daemonize
    \/ RunBotLoginFails
    \/ RunBotSchedulerFails
    \/ RunBot
    \/ SyncFails
    \/ OnRoomMessage
    \/ FireReminder
    \/ HandleMeetingEventRequest
    \/ HandleMeetingsEventsRequest
    \/ SendResponse
    \/ SendScheduledReminder
    \/ Return

SpecBot == BotInit /\ [][BotNext]_vars

-----------------------------------------------------------------------------
(* Claims about the handlers, the start-up and the firings *)

\* the body starts with a plural command
IsPlural(body) == StartsWith(body, MeetingsPrefix) \/ StartsWith(body, EventsPrefix)

\* the body starts with a singular command and with no plural one
IsSingular(body) ==
    /\ StartsWith(body, MeetingPrefix) \/ StartsWith(body, EventPrefix)
    /\ ~IsPlural(body)

\* the run is of a text message from a sender who is not ignored, in a joined room
Accepted ==
    /\ run.kind = "message"
    /\ run.state = "Joined"
    /\ run.msgtype = "Text"
    /\ ~should_ignore_user(run.sender, config.username, config.bot_filtering)

\* the run has sent, once, to its room, the text the named request function gives
SentOnce(text) ==
    /\ Len(run.sends) = 1
    /\ run.sends[1].room = run.room
    /\ run.sends[1].text = text

\* C5: for a text message from a sender who is not ignored, in a joined room,
\* a body starting with !meetings or !events gets the all-upcoming-events
\* response, one starting with !meeting or !event and no plural prefix gets
\* the next-event response, and no message gets more than one response.
C5_CommandDispatch ==
    Accepted =>
        /\ IsPlural(run.body) =>
              /\ run.handler = "meetings"
              /\ run.pc = "returned" =>
                    SentOnce(handle_meetings_events_request(config, run.feed, run.now).text)
        /\ IsSingular(run.body) =>
              /\ run.handler = "meeting"
              /\ run.pc = "returned" =>
                    SentOnce(handle_meeting_event_request(config, run.feed, run.now).text)
        /\ Len(run.sends) <= 1

\* C5 witness: "!meetings x" matches !meetings and !meeting, and was answered
\* once, with the list of upcoming events.
C5_Witness ==
    /\ Accepted
    /\ run.body = MeetingsPrefix \o << " ", "x" >>
    /\ StartsWith(run.body, MeetingPrefix)
    /\ run.pc = "returned"
    /\ Len(run.sends) = 1
    /\ run.sends[1].text[1] = Literal("# Upcoming Meetings/Events")

\* some configured reminder has a cron expression or a room id that does not parse
SomeReminderInvalid ==
    \E i \in 1..Len(config.reminders) :
        \/ config.reminders[i].cron \notin ValidCrons
        \/ config.reminders[i].matrix_room \notin ValidRoomIds

\* C8: if a configured reminder has an invalid cron expression or room id, the
\* process exits before serving: run_bot is not entered, so no client is
\* built, no handler registered, no job added and no message sent.
C8_InvalidReminderIsFatal ==
    SomeReminderInvalid =>
        /\ mainpc \in { "main", "exited" }
        /\ ~client
        /\ handlers = {}
        /\ jobs = <<>>
        /\ ~started
        /\ run = IdleRun
        /\ ~sent_any

\* C8 witness: main has exited on a configuration whose first reminder is
\* valid and whose second has a room id that does not parse.
C8_Witness ==
    /\ mainpc = "exited"
    /\ Len(config.reminders) = 2
    /\ CronParses(config.reminders[1].cron)
    /\ RoomIdParses(config.reminders[1].matrix_room)
    /\ CronParses(config.reminders[2].cron)
    /\ ~RoomIdParses(config.reminders[2].matrix_room)

\* the events of the run's feed that start after the run's now
FeedUpcoming ==
    { i \in 1..Len(run.feed[1]) :
        /\ run.feed[1][i].start_time # None
        /\ StrLt(run.now, run.feed[1][i].start_time[1]) }

C10_SingleSend ==
    /\ Len(run.sends) <= 1
    /\ run.sends # <<>> =>
          /\ run.pc = "returned"
          /\ ~run.sends[1].ok =>
                run.logs[Len(run.logs)] \in
                    { "Failed to send meetings/events message",
                      "Failed to send meeting/event message",
                      "Failed to send scheduled reminder" }

\* C10, the step form: send is called only by the send step of a run that
\* has not sent yet.
C10_SendOnlyInSendStep ==
    [][Len(run'.sends) > Len(run.sends) =>
          /\ run.pc = "send"
          /\ run.sends = <<>>
          /\ Len(run'.sends) = 1]_vars

\* C10 witness: a firing whose only send failed has returned.
C10_Witness ==
    /\ run.kind = "reminder"
    /\ run.pc = "returned"
    /\ Len(run.sends) = 1
    /\ ~run.sends[1].ok

-----------------------------------------------------------------------------
(* The join specification: the bot is serving, invitations arrive and the  *)
(* join tasks run interleaved.                                             *)

JoinReminder == ReminderConfig("0 0 9 * * Mon", "NextMeeting", "!a:x")

JoinInit ==
    /\ mainpc = "serving"
    /\ config = Config(<< "b", "O", "t" >>, <<9>>, None, << JoinReminder >>,
                       DefaultBotFiltering)
    /\ client = TRUE
    /\ handlers = { "on_room_message", "on_stripped_state_member" }
    /\ jobs = << JobOf(JoinReminder) >>
    /\ started = TRUE
    /\ run = IdleRun
    /\ sent_any = FALSE
    /\ tasks = <<>>
    /\ QueryIdle
    /\ FilterIdle
    /\ FormatIdle
    /\ LoadIdle

JoinNext ==
    \/ OnStrippedStateMember
    \/ \E t \in 1..Len(tasks) : JoinAttempt(t)
    \/ \E t \in 1..Len(tasks) : Sleep(t)
    \/ \E t \in 1..Len(tasks) : FinalJoin(t)

SpecJoin == JoinInit /\ [][JoinNext]_vars

-----------------------------------------------------------------------------
(* Claims about the join task *)

RECURSIVE Pow2(_)
Pow2(n) == IF n = 0 THEN 1 ELSE 2 * Pow2(n - 1)

\* every join call of the task's loop has failed
AllLoopJoinsFailed(task) ==
    \/ task.pc \in { "join", "sleep" } /\ task.oks = 0
    \/ task.pc = "final" /\ task.oks = 0
    \/ task.pc = "done" /\ task.oks = (IF task.joined THEN 1 ELSE 0) /\ task.gave_up

\* C6: while every join fails, the delay runs 2, 4, 8, ..., 2048, 4096, each
\* failed attempt being waited for and retried; the attempt after which the
\* doubled delay exceeds 3600 (the eleventh, 4096) is the last one retried,
\* and the task then gives up.
C6_BackoffSequence ==
    \A t \in 1..Len(tasks) :
        LET task == tasks[t]
        IN  /\ \A i \in 1..Len(task.waits) : task.waits[i] = Pow2(i)
            /\ task.delay = Pow2(Len(task.waits) + 1)
            /\ task.gave_up <=> task.delay > 3600
            /\ task.gave_up =>
                  /\ task.delay = 4096
                  /\ Len(task.waits) = 11
                  /\ task.waits[11] = 2048
            /\ (task.pc \in { "final", "done" } /\ AllLoopJoinsFailed(task)) =>
                  task.gave_up

\* C6 witness: a task all of whose joins failed has given up at delay 4096.
C6_Witness ==
    \E t \in 1..Len(tasks) :
        /\ tasks[t].gave_up
        /\ tasks[t].oks = 0
        /\ tasks[t].delay = 4096
        /\ tasks[t].pc = "final"

\* C7: once a task has logged that it cannot join the room, it makes no
\* further join call.
C7_GaveUpIsTerminal ==
    [][\A t \in 1..Len(tasks) :
          tasks[t].gave_up => tasks'[t].joins = tasks[t].joins]_vars

-----------------------------------------------------------------------------
(* Claims about feed failures and the freshness of the feed *)

\* the run's request function fetched the feed and the fetch or the parse failed
FetchFailed ==
    /\ run.handled # None
    /\ run.handled[1].fetches >= 1
    /\ run.feed = None

Apology == << Literal("There was a problem fetching the calendar") >>

\* C11: when the feed fetch or parse fails during a request or a firing, the
\* request function returns the fixed apology text after that one fetch, the
\* text is what the run sends, and the process goes on serving.
C11_FetchFailureApology ==
    FetchFailed =>
        /\ run.handled[1].text = Apology
        /\ run.handled[1].fetches = 1
        /\ ~run.handled[1].queried
        /\ mainpc = "serving"
        /\ run.pc \in { "send", "returned" }
        /\ run.pc = "returned" =>
              /\ Len(run.sends) = 1
              /\ run.sends[1].text = Apology

\* C11 witness: a NextMeeting firing whose fetch failed has sent the apology
\* and returned, the bot still serving.
C11_Witness ==
    /\ FetchFailed
    /\ run.kind = "reminder"
    /\ run.handler = "meeting"
    /\ run.pc = "returned"
    /\ run.sends[1].text = Apology
    /\ run.sends[1].ok
    /\ mainpc = "serving"

-----------------------------------------------------------------------------
(* Specification of the request functions as functions of their inputs:
   the Config, what the feed fetch gives and the time of the call *)

MaxFeedEvents == 2

\* events with every combination of present and absent fields
FormatEvents ==
    { CalendarEvent(summary, start_time, end_time, location, url) :
        summary \in Option({ <<5>> }), start_time \in Option({ <<2>> }),
        end_time \in Option({ <<2, 1>> }), location \in Option({ <<6>> }),
        url \in Option({ <<7>> }) }

FormatCalendars == UNION { [1..n -> FormatEvents] : n \in 0..MaxFeedEvents }

\* a feed with and without an info URL, and no feed with an info URL
FormatConfigs ==
    { Config(<< "b", "O", "t" >>, <<9>>, None, <<>>, DefaultBotFiltering),
      Config(<< "b", "O", "t" >>, <<9>>, Some(<<8>>), <<>>, DefaultBotFiltering),
      Config(<< "b", "O", "t" >>, <<>>, Some(<<8>>), <<>>, DefaultBotFiltering) }

FormatInit ==
    /\ request \in [cfg : FormatConfigs, feed : Option(FormatCalendars), now : Nows]
    /\ reply = None
    /\ QueryIdle
    /\ FilterIdle
    /\ BotIdle
    /\ LoadIdle

CallMeetingEvent ==
    /\ reply = None
    /\ reply' = Some([fn  |-> "handle_meeting_event_request",
                      did |-> handle_meeting_event_request(
                                  request.cfg, request.feed, request.now)])
    /\ UNCHANGED <<request, queryVars, filterVars, botVars, joinVars, loadVars>>

CallMeetingsEvents ==
    /\ reply = None
    /\ reply' = Some([fn  |-> "handle_meetings_events_request",
                      did |-> handle_meetings_events_request(
                                  request.cfg, request.feed, request.now)])
    /\ UNCHANGED <<request, queryVars, filterVars, botVars, joinVars, loadVars>>

FormatNext ==
    \/ CallMeetingEvent
    \/ CallMeetingsEvents

SpecFormat == FormatInit /\ [][FormatNext]_vars

-----------------------------------------------------------------------------
(* Claims about the text of a response *)

Did == reply[1].did

\* the call listed events: the feed was fetched and the query found some
ListsEvents ==
    /\ reply # None
    /\ Did.queried
    /\ Did.found # <<>>

\* the k-th event the query returned
FoundEvent(k) == request.feed[1][Did.found[k]]

Titles == { "link", "bold" }

TitleIdx(text) == { i \in 1..Len(text) : text[i][1] \in Titles }

CountOf(text, what) == Cardinality({ i \in 1..Len(text) : text[i][1] = what })

\* the n-th titled block of the text, up to its blank line, has a `what' line
SegmentHas(text, n, what) ==
    \E i \in TitleIdx(text) :
        /\ Cardinality({ j \in TitleIdx(text) : j <= i }) = n
        /\ \E m \in (i + 1)..Len(text) :
              /\ text[m][1] = what
              /\ \A x \in (i + 1)..m : text[x][1] \notin Titles \cup { "blank" }

\* how many of the first k returned events have a summary
Rank(k) == Cardinality({ j \in 1..k : FoundEvent(j).summary # None })

FieldOf(event, what) ==
    CASE what = "Starts"   -> event.start_time
      [] what = "Ends"     -> event.end_time
      [] what = "Location" -> event.location

Lines == { "Starts", "Ends", "Location" }

\* C13 as stated: for every listed event, with or without a summary, the
\* text has the event's Starts, Ends and Location line exactly when the event
\* has the field; so the text has as many lines of a kind as listed events
\* with that field.
C13_LineIffField ==
    ListsEvents =>
        \A what \in Lines :
            CountOf(Did.text, what) =
                Cardinality({ k \in 1..Len(Did.found) :
                                FieldOf(FoundEvent(k), what) # None })

\* C13 amended: every listed event that has a summary gets one titled block,
\* in which the Starts, Ends and Location line is present exactly when the
\* event has the field; a listed event without a summary gets no block and no
\* line at all.
C13_LineIffFieldOfTitled ==
    ListsEvents =>
        /\ Cardinality(TitleIdx(Did.text)) = Rank(Len(Did.found))
        /\ \A what \in Lines :
              /\ \A k \in 1..Len(Did.found) :
                    FoundEvent(k).summary # None =>
                        (SegmentHas(Did.text, Rank(k), what)
                            <=> FieldOf(FoundEvent(k), what) # None)
              /\ CountOf(Did.text, what) =
                    Cardinality({ k \in 1..Len(Did.found) :
                                    /\ FoundEvent(k).summary # None
                                    /\ FieldOf(FoundEvent(k), what) # None })

\* C13 witness: the list of two events, the first without a summary but with
\* an end and a location, the second with a summary and a start only.
C13_Witness ==
    /\ ListsEvents
    /\ reply[1].fn = "handle_meetings_events_request"
    /\ Len(Did.found) = 2
    /\ FoundEvent(1).summary = None
    /\ FoundEvent(1).end_time # None
    /\ FoundEvent(1).location # None
    /\ FoundEvent(2).summary # None
    /\ FoundEvent(2).end_time = None
    /\ FoundEvent(2).location = None
    /\ CountOf(Did.text, "Starts") = 1
    /\ CountOf(Did.text, "Ends") = 0

InfoLine == "For more information"

\* C14 as stated: whenever an info URL is configured, the text a request
\* function returns ends with the info line carrying that URL; when none is
\* configured the text has no info line.
C14_InfoLineWhenConfigured ==
    reply # None =>
        IF request.cfg.info_url # None
        THEN Did.text[Len(Did.text)] = Piece(InfoLine, request.cfg.info_url[1], <<>>)
        ELSE CountOf(Did.text, InfoLine) = 0

\* C14 amended: a text that lists events ends with the one info line carrying
\* the configured URL whenever an info URL is configured; the fixed messages
\* (no feed configured, fetch failed, no upcoming events) never carry an info
\* line, and no text does when no info URL is configured.
C14_InfoLineAfterEvents ==
    reply # None =>
        IF request.cfg.info_url # None /\ ListsEvents
        THEN /\ Did.text[Len(Did.text)] = Piece(InfoLine, request.cfg.info_url[1], <<>>)
             /\ CountOf(Did.text, InfoLine) = 1
        ELSE CountOf(Did.text, InfoLine) = 0

\* C14 witness: the single-event text of a titled event ends with the info
\* line of the configured URL.
C14_Witness ==
    /\ ListsEvents
    /\ reply[1].fn = "handle_meeting_event_request"
    /\ request.cfg.info_url = Some(<<8>>)
    /\ FoundEvent(1).summary # None
    /\ Len(Did.text) >= 3
    /\ Did.text[Len(Did.text)] = Piece(InfoLine, <<8>>, <<>>)

NoUpcoming == << Literal("No upcoming events found.") >>

\* the fetched calendar has an event that starts after the time of the call
FeedHasUpcoming ==
    \E i \in 1..Len(request.feed[1]) :
        /\ request.feed[1][i].start_time # None
        /\ StrLt(request.now, request.feed[1][i].start_time[1])

\* C15: when the feed is fetched and no event of it is upcoming, the request
\* functions return exactly "No upcoming events found."; whatever the
\* calendar and the configuration, what the call returns is a text (the
\* functions return String, with no error case), and the text is never
\* empty: it begins with a fixed message or a heading.
C15_NeverEmptyText ==
    reply # None =>
        /\ Len(Did.text) >= 1
        /\ Did.text[1] \in { Literal("No webcal URL configured"),
                             Literal("There was a problem fetching the calendar"),
                             Literal("No upcoming events found."),
                             Literal("# Next Meeting/Event"),
                             Literal("# Upcoming Meetings/Events") }
        /\ (request.cfg.webcal # <<>> /\ request.feed # None /\ ~FeedHasUpcoming) =>
              /\ Did.text = NoUpcoming
              /\ Did.found = <<>>
        /\ Did.text = NoUpcoming =>
              (request.cfg.webcal # <<>> /\ request.feed # None /\ ~FeedHasUpcoming)

\* C15 witness: a calendar of two events, none of them upcoming, gets the
\* fixed message from the plural request function.
C15_Witness ==
    /\ reply # None
    /\ reply[1].fn = "handle_meetings_events_request"
    /\ request.feed # None
    /\ Len(request.feed[1]) = 2
    /\ Did.queried
    /\ Did.found = <<>>
    /\ Did.text = NoUpcoming

-----------------------------------------------------------------------------
(* Claims about invitations and the join tasks *)

\* C16: a join task exists, and so room.join() is called, only for a member
\* event whose state key is the bot's own user id and whose membership is
\* Invite: every task, whether it has called join yet or not, was spawned for
\* such an event.
C16_JoinOnlyOnOwnInvite ==
    \A t \in 1..Len(tasks) :
        /\ tasks[t].event[1] = config.username
        /\ tasks[t].event[2] = "Invite"

\* C16 witness: an invitation of the bot to !b:x has led to a join call.
C16_Witness ==
    \E t \in 1..Len(tasks) :
        /\ tasks[t].event = << config.username, "Invite" >>
        /\ tasks[t].room = "!b:x"
        /\ tasks[t].joins >= 1

\* a task is between two join calls of its loop
Retrying(t) == tasks[t].joins >= 1 /\ tasks[t].pc \in { "sleep", "join" }

\* the guards of OnRoomMessage and of FireReminder: no handler run is under
\* way, the message handler is registered and the scheduler runs its jobs
CanTakeMessage ==
    /\ mainpc = "serving"
    /\ "on_room_message" \in handlers
    /\ run = IdleRun

CanFire ==
    /\ mainpc = "serving"
    /\ started
    /\ jobs # <<>>
    /\ run = IdleRun

-----------------------------------------------------------------------------
(* Claims about the reminder jobs *)

\* the scheduler holds one job per configured reminder, each with the
\* reminder's schedule, kind and room, and runs them
JobsAsConfigured ==
    /\ Len(jobs) = Len(config.reminders)
    /\ \A j \in 1..Len(jobs) :
          /\ jobs[j].cron = config.reminders[j].cron
          /\ jobs[j].reminder_type = config.reminders[j].reminder_type
          /\ jobs[j].room_id = config.reminders[j].matrix_room
    /\ started = (config.reminders # <<>>)

\* a firing is over: its future has completed
FiringOver == run.kind = "reminder" /\ run.pc = "returned"

\* C18: while the bot serves, the scheduler holds exactly one job per
\* configured reminder, with the reminder's schedule, kind and room; no step
\* of a firing changes the jobs, and when a firing is over, whatever its
\* outcome (sent, send failed, fetch failed, bot not in the room), its job is
\* still registered and, once the firing has returned, can fire again, until
\* the process ends.
C18_JobsNeverEnd ==
    [][ /\ mainpc' = "serving" => JobsAsConfigured'
        /\ (mainpc = "serving" /\ mainpc' = "serving") =>
              (jobs' = jobs /\ started' = started /\ config' = config)
        /\ FiringOver' => run'.job \in 1..Len(jobs')
        /\ (FiringOver /\ run' = IdleRun /\ mainpc' = "serving") => CanFire'
      ]_vars

\* C18 witness: with two reminders configured, the firing of the second job
\* is over after a failed send of the apology for a failed fetch, and both
\* jobs are registered as configured.
C18_Witness ==
    /\ mainpc = "serving"
    /\ FiringOver
    /\ run.job = 2
    /\ FetchFailed
    /\ Len(run.sends) = 1
    /\ ~run.sends[1].ok
    /\ Len(config.reminders) = 2
    /\ JobsAsConfigured

-----------------------------------------------------------------------------
(* Specification of Config::from_toml as a function of the document *)

MaxTomlReminders == 1

\* a required key: absent, a string, or a value of another type
RequiredValues(s) == { None, Some(TomlString(s)), Some(TomlInteger(<<>>)) }

ReminderTable(cron, reminder_type, matrix_room) ==
    [ type |-> "table",
      val  |-> [cron |-> cron, reminder_type |-> reminder_type,
                matrix_room |-> matrix_room] ]

\* the entries of a [[reminders]] array: a complete one, one without cron, one
\* of an unknown kind, one whose room is no string, and one that is no table
TomlReminderEntries ==
    { ReminderTable(Some(TomlString("0 0 9 * * Mon")), Some(TomlString("NextMeeting")),
                    Some(TomlString("!a:x"))),
      ReminderTable(None, Some(TomlString("NextMeeting")), Some(TomlString("!a:x"))),
      ReminderTable(Some(TomlString("0 0 9 * * Mon")), Some(TomlString("Weekly")),
                    Some(TomlString("!a:x"))),
      ReminderTable(Some(TomlString("0 0 9 * * Mon")),
                    Some(TomlString("AllUpcomingMeetings")), Some(TomlInteger(""))),
      [ type |-> "integer",
        val  |-> [cron |-> None, reminder_type |-> None, matrix_room |-> None] ] }

TomlReminders ==
    { None, Some([type |-> "integer", val |-> <<>>]) }
    \cup { Some([type |-> "array", val |-> entries]) :
             entries \in UNION { [1..n -> TomlReminderEntries] :
                                   n \in 0..MaxTomlReminders } }

NoFilterTable == [ignore_self |-> None, ignore_bots |-> None, ignored_users |-> None]

TomlFilterings ==
    { None,
      Some([type |-> "integer", val |-> NoFilterTable]),
      Some([type |-> "table",
            val  |-> [ ignore_self   |-> Some([type |-> "boolean", val |-> FALSE]),
                       ignore_bots   |-> Some(TomlInteger(TRUE)),
                       ignored_users |->
                           Some([type |-> "array",
                                 val  |-> << TomlString(<< "x" >>),
                                             TomlInteger(<<>>) >>]) ]]) }

\* the tables toml::from_str may give; help_file is a key from_toml never reads
TomlTables ==
    [ homeserver    : RequiredValues(<<3>>),
      username      : RequiredValues(<< "b", "O", "t" >>),
      access_token  : RequiredValues(<<4>>),
      webcal        : { None, Some(TomlString(<<9>>)) },
      info_url      : { None, Some(TomlString(<<8>>)) },
      help_file     : { None, Some(TomlString(<<1>>)) },
      reminders     : TomlReminders,
      bot_filtering : TomlFilterings ]

NoTable ==
    [ homeserver |-> None, username |-> None, access_token |-> None,
      webcal |-> None, info_url |-> None, help_file |-> None,
      reminders |-> None, bot_filtering |-> None ]

\* what toml::from_str gives: Err, or a table
TomlDocs ==
    { [parsed |-> FALSE, table |-> NoTable] }
    \cup { [parsed |-> TRUE, table |-> table] : table \in TomlTables }

LoadInit ==
    /\ toml \in { Some(doc) : doc \in TomlDocs }
    /\ loaded = None
    /\ QueryIdle
    /\ FilterIdle
    /\ BotIdle
    /\ FormatIdle

CallFromToml ==
    /\ loaded = None
    /\ loaded' = Some(from_toml(Unwrap(toml)))
    /\ UNCHANGED <<toml, queryVars, filterVars, botVars, joinVars, formatVars>>

LoadNext == CallFromToml

SpecLoad == LoadInit /\ [][LoadNext]_vars

-----------------------------------------------------------------------------
(* Claims about the loading of the configuration *)

Required == << "homeserver", "username", "access_token" >>

TableOf == toml[1].table

ValueOf(key) ==
    CASE key = "homeserver"   -> TableOf.homeserver
      [] key = "username"     -> TableOf.username
      [] key = "access_token" -> TableOf.access_token

Absent(key) == ValueOf(key) = None

\* absent, or there with a value that is no string
Unusable(key) == Absent(key) \/ ValueOf(key)[1].type # "string"

MissingMessage(key) ==
    CASE key = "homeserver"   -> "Missing 'homeserver' in config file"
      [] key = "username"     -> "Missing 'username' in config file"
      [] key = "access_token" -> "Missing 'access_token' in config file"

\* from_toml was called on a document that parsed to a table
LoadedTable == loaded # None /\ toml[1].parsed

\* C19 as stated: if a required key is absent, from_toml returns no Config but
\* the error "Missing '<key>'" of the first absent key, in the order
\* homeserver, username, access_token; an unknown key causes no error.
C19_MissingNamesFirstAbsent ==
    LoadedTable =>
        /\ \A i \in 1..3 :
              (Absent(Required[i]) /\ \A j \in 1..(i - 1) : ~Absent(Required[j])) =>
                  /\ ~loaded[1].ok
                  /\ loaded[1].value = <<>>
                  /\ loaded[1].error = MissingMessage(Required[i])
        /\ ((\A i \in 1..3 : ~Unusable(Required[i])) /\ TableOf.reminders = None) =>
              loaded[1].ok

\* C19 amended: if a required key is absent or holds a value that is no
\* string, from_toml returns no Config but the error "Missing '<key>'" of the
\* first such key, in the order homeserver, username, access_token; with the
\* three strings there and no reminders, the call returns a Config, whether
\* or not the document has a key the loader does not know.
C19_MissingNamesFirstUnusable ==
    LoadedTable =>
        /\ \A i \in 1..3 :
              (Unusable(Required[i]) /\ \A j \in 1..(i - 1) : ~Unusable(Required[j])) =>
                  /\ ~loaded[1].ok
                  /\ loaded[1].value = <<>>
                  /\ loaded[1].error = MissingMessage(Required[i])
        /\ ((\A i \in 1..3 : ~Unusable(Required[i])) /\ TableOf.reminders = None) =>
              /\ loaded[1].ok
              /\ loaded[1].value[1].username = ValueOf("username")[1].val

\* C19 witness: a document with a homeserver and an unknown key but neither
\* username nor access_token gets the error that names the username.
C19_Witness ==
    /\ LoadedTable
    /\ ~Unusable("homeserver")
    /\ Absent("username")
    /\ Absent("access_token")
    /\ TableOf.help_file # None
    /\ ~loaded[1].ok
    /\ loaded[1].value = <<>>
    /\ loaded[1].error = "Missing 'username' in config file"

-----------------------------------------------------------------------------
(* Claims about the end of a join task *)

\* C20: Joined is terminal: once a room.join() call of a task has returned
\* Ok, the task makes no further join call for its room.
C20_JoinedIsTerminal ==
    [][ \A t \in 1..Len(tasks) :
            tasks[t].oks >= 1 => tasks'[t].joins = tasks[t].joins ]_vars

-----------------------------------------------------------------------------
(* Claims about the length of the waits and the end of a join task *)

\* C21: every delay a join task has waited between two join calls is at most
\* the cap of 3600 seconds: the first wait is 2, each later wait is twice the
\* one before, every wait follows a join call of the loop, and no wait
\* exceeds the cap.
C21_WaitsWithinCap ==
    \A t \in 1..Len(tasks) :
        LET waits == tasks[t].waits
        IN  /\ \A i \in 1..Len(waits) :
                  /\ waits[i] = (IF i = 1 THEN InitialDelay ELSE 2 * waits[i - 1])
                  /\ waits[i] <= MaxDelay
            /\ Len(waits) <= tasks[t].joins

\* C21 witness: a task whose joins all failed has waited its longest delay,
\* 2048 seconds, as its eleventh wait.
C21_Witness ==
    \E t \in 1..Len(tasks) :
        /\ Len(tasks[t].waits) = 11
        /\ tasks[t].waits[11] = 2048
        /\ tasks[t].oks = 0
        /\ tasks[t].joins = 11

\* One join task from its spawn to its end.  The tokio runtime keeps polling
\* a spawned task, and a join call or a sleep under way completes, so a task
\* that can take a step takes one.
TaskInit ==
    /\ mainpc = "serving"
    /\ config = Config(<< "b", "O", "t" >>, <<9>>, None, << JoinReminder >>,
                       DefaultBotFiltering)
    /\ client = TRUE
    /\ handlers = { "on_room_message", "on_stripped_state_member" }
    /\ jobs = << JobOf(JoinReminder) >>
    /\ started = TRUE
    /\ run = IdleRun
    /\ sent_any = FALSE
    /\ \E room \in ValidRoomIds :
          tasks = << NewTask(room, << config.username, "Invite" >>) >>
    /\ QueryIdle
    /\ FilterIdle
    /\ FormatIdle
    /\ LoadIdle

TaskNext ==
    \/ \E t \in 1..Len(tasks) : JoinAttempt(t)
    \/ \E t \in 1..Len(tasks) : Sleep(t)
    \/ \E t \in 1..Len(tasks) : FinalJoin(t)

SpecTask == TaskInit /\ [][TaskNext]_vars /\ WF_vars(TaskNext)

\* the task has ended
Ended(t) == tasks[t].pc = "done"

\* C22: whatever the join calls return, a join task ends: it makes at most
\* 12 join calls and at most 11 waits, and when it has ended, a join call of
\* it has returned Ok or it has given up.
C22_TaskTerminates ==
    /\ [](\A t \in 1..Len(tasks) :
             /\ tasks[t].joins <= 12
             /\ Len(tasks[t].waits) <= 11
             /\ Ended(t) => (tasks[t].oks >= 1 \/ tasks[t].gave_up))
    /\ <>[](\A t \in 1..Len(tasks) : Ended(t))

\* C22 witness: a task whose join calls all failed has ended after 12 join
\* calls and 11 waits, having given up.
C22_Witness ==
    \E t \in 1..Len(tasks) :
        /\ Ended(t)
        /\ tasks[t].joins = 12
        /\ Len(tasks[t].waits) = 11
        /\ tasks[t].oks = 0
        /\ tasks[t].gave_up

-----------------------------------------------------------------------------
(* Claims about the messages on_room_message drops *)

\* the body starts with one of the four command prefixes
HasCommandPrefix(body) ==
    \/ StartsWith(body, MeetingsPrefix)
    \/ StartsWith(body, EventsPrefix)
    \/ StartsWith(body, MeetingPrefix)
    \/ StartsWith(body, EventPrefix)

\* the run is of a message that on_room_message is to drop
Dropped ==
    /\ run.kind = "message"
    /\ \/ run.state # "Joined"
       \/ run.msgtype # "Text"
       \/ should_ignore_user(run.sender, config.username, config.bot_filtering)
       \/ ~HasCommandPrefix(run.body)

\* C23: for a message in a room that is not Joined, a message that is no text
\* message, a message of a sender should_ignore_user is true for, or a body
\* that starts with no command prefix, on_room_message returns without
\* calling a request function, so without a fetch, and without a send; and no
\* step of the handling of a message, dropped or answered, changes the
\* configuration or the jobs made from its reminders.
C23_DroppedMessageHasNoEffect ==
    [][ /\ Dropped' =>
              /\ run'.pc = "returned"
              /\ run'.handler = "none"
              /\ run'.handled = None
              /\ run'.feed = None
              /\ run'.sends = <<>>
              /\ sent_any' = sent_any
        /\ (run.kind = "message" \/ run'.kind = "message") =>
              /\ config' = config
              /\ jobs' = jobs
              /\ started' = started
      ]_vars

\* C23 witness: "!meetings", as a text message of a sender who is not ignored
\* but in a room the bot is only invited to, was dropped.
C23_Witness ==
    /\ Dropped
    /\ run.state = "Invited"
    /\ run.msgtype = "Text"
    /\ ~should_ignore_user(run.sender, config.username, config.bot_filtering)
    /\ run.body = MeetingsPrefix
    /\ run.pc = "returned"
    /\ run.sends = <<>>
    /\ run.handled = None

=============================================================================
